---- MODULE Spec2Model ----
(***************************************************************************)
(* Model of bin/cmd.js: the command entry point modulenameCmd, its parser  *)
(* adapter parseYargs and the top-level process wrapper.                   *)
(*                                                                         *)
(* One behaviour is one invocation of the entry point.  The synchronous    *)
(* part of the call is one action (Call for an API caller, Main for the    *)
(* process wrapper); what the code leaves to a later turn of the event     *)
(* loop is one action each: the process.nextTick callback (Tick), a parse  *)
(* completion that the parsing collaborator delivers on a later turn       *)
(* (ParseCompletes) and the wrapped function's completion                  *)
(* (WrappedCompletes).                                                     *)
(***************************************************************************)
EXTENDS Integers, Sequences, FiniteSets, TLC

\* ------------------------------------------------------------------ bounds

\* Longest list of command-line tokens (after the two leading entries).
MaxArgs == 4
\* Longest token list that is paired with options that fail validation
\* (option validation never reads the tokens).
MaxArgsInvalid == 1

\* ------------------------------------------------------------------ values

\* JavaScript null / "no error": the error record whose name is empty.
NoErr ==
  [name |-> "", message |-> "", exitCodeType |-> "absent", exitCode |-> 0,
   stdout |-> "", stderr |-> ""]

MkErr(name, message) ==
  [name |-> name, message |-> message, exitCodeType |-> "absent", exitCode |-> 0,
   stdout |-> "", stderr |-> ""]

\* JavaScript truthiness of an error argument: if (err) ...
Truthy(err) == err # NoErr

\* The command-line tokens the inputs are drawn from.
Tokens == {"-v", "-q", "--help", "--version", "--bogus", "x"}

TokenLists(n) == UNION {[1..k -> Tokens] : k \in 0..n}

\* The values rawArgs is drawn from.  kind: "undefined", "null", "primitive"
\* (typeof is not 'object'), "noLength" (an object whose length is not an
\* integer), "array" (array-like, elems are its elements).
NonArrayArgs ==
  {[kind |-> k, elems |-> <<>>] : k \in {"undefined", "null", "primitive", "noLength"}}

ArrayArgs(n) ==
  {[kind |-> "array", elems |-> e] : e \in {<<>>, <<"node">>}}
    \cup {[kind |-> "array", elems |-> <<"node", "cmd">> \o t] : t \in TokenLists(n)}

RawArgsInputs(n) == NonArrayArgs \cup ArrayArgs(n)

\* The values one stream option is drawn from: the key is absent, or holds
\* undefined, null, an object without the method the role needs ("noMethod"),
\* the caller's own stream ("user") or the process-wide stream ("process").
SlotValues == {"absent", "undefined", "null", "noMethod", "user"}

\* The values options is drawn from.  kind: "undefined", "null", "primitive",
\* "function", "object" (with its three stream keys).
NonObjectOptions ==
  {[kind |-> k, in |-> "absent", out |-> "absent", err |-> "absent"] :
     k \in {"undefined", "null", "primitive", "function"}}

ObjectOptions ==
  {[kind |-> "object", in |-> i, out |-> o, err |-> e] :
     i \in SlotValues, o \in SlotValues, e \in SlotValues}

OptionsInputs == NonObjectOptions \cup ObjectOptions

NullOptions == [kind |-> "null", in |-> "absent", out |-> "absent", err |-> "absent"]

\* mainOptions of the process wrapper.
MainOptions == [kind |-> "object", in |-> "process", out |-> "process", err |-> "process"]

\* The callback argument: absent (undefined), another falsy value (null, 0,
\* false, ''), a function, or a truthy non-function.
CallbackInputs == {"absent", "falsy", "function", "notFunction"}

\* !callback
Falsy(ca) == ca \in {"absent", "falsy"}

\* ------------------------------------------------- argument normalisation

\* The calling style after lines 68-84:
\*   "callback"  the effective callback is a function
\*   "deferred"  no callback and a Promise primitive: the call is wrapped
\*   "throws"    no usable callback: TypeError thrown synchronously
NormCallback(oa, ca) ==
  IF Falsy(ca) /\ oa.kind = "function" THEN "function" ELSE ca

NormOptions(oa, ca) ==
  IF Falsy(ca) /\ oa.kind = "function" THEN NullOptions ELSE oa

\* Mutant of StyleOf: the type of the callback is tested first, so that only
\* an undefined callback is wrapped in a Promise.
StyleOfTypeFirst(oa, ca, promiseDefined) ==
  LET cb == NormCallback(oa, ca) IN
  IF cb \in {"falsy", "notFunction"} THEN "throws"
  ELSE IF cb = "absent" THEN (IF promiseDefined THEN "deferred" ELSE "throws")
  ELSE "callback"

StyleOf(oa, ca, promiseDefined) ==
  LET cb == NormCallback(oa, ca) IN
  IF Falsy(cb) /\ promiseDefined THEN "deferred"
  ELSE IF cb # "function" THEN "throws"
  ELSE "callback"

\* ------------------------------------------------------------- validation

\* String(x) on a token, which is a string already.
JsString(t) == t

\* Array.prototype.slice.call(args, 2).map(String)
SliceArgs(elems) == [i \in 1..(Len(elems) - 2) |-> JsString(elems[i + 2])]

\* Mutant of ArgsError: null and undefined are refused like any other value
\* that is not array-like.
ArgsErrorNullFails(ra) ==
  IF ra.kind # "array" THEN MkErr("TypeError", "args must be Array-like")
  ELSE IF Len(ra.elems) < 2
    THEN MkErr("RangeError", "args must have at least 2 elements")
  ELSE NoErr

\* Lines 87-96: the error thrown for rawArgs, or NoErr.
ArgsError(ra) ==
  IF ra.kind \in {"undefined", "null"} THEN NoErr
  ELSE IF ra.kind \in {"primitive", "noLength"}
    THEN MkErr("TypeError", "args must be Array-like")
  ELSE IF Len(ra.elems) < 2
    THEN MkErr("RangeError", "args must have at least 2 elements")
  ELSE NoErr

\* Lines 87-96: args after normalisation (when no error is thrown).
NormArgs(ra) ==
  IF ra.kind \in {"undefined", "null"} THEN <<>>
  ELSE IF ra.kind = "array" /\ Len(ra.elems) >= 2 THEN SliceArgs(ra.elems)
  ELSE <<>>

DefaultStream(role) ==
  CASE role = "in" -> "process.stdin"
    [] role = "out" -> "process.stdout"
    [] role = "err" -> "process.stderr"

\* One key of assign({in: .., out: .., err: ..}, options): an own key of the
\* caller's object overrides the default, whatever its value.
AssignSlot(role, v) ==
  CASE v = "absent" -> DefaultStream(role)
    [] v = "process" -> DefaultStream(role)
    [] v = "user" -> "user." \o role
    [] OTHER -> v

\* Lines 102-109.
AssignOptions(o) ==
  [in |-> AssignSlot("in", o.in), out |-> AssignSlot("out", o.out),
   err |-> AssignSlot("err", o.err)]

\* !h || typeof h.<method> !== 'function'
FailsCapability(h) == h \in {"undefined", "null"} \/ h = "noMethod"

\* Lines 98-119: the error thrown for options, or NoErr.
OptionsError(o) ==
  IF o.kind \in {"primitive", "function"}
    THEN MkErr("TypeError", "options must be an object")
  ELSE LET r == AssignOptions(o) IN
    IF FailsCapability(r.in)
      THEN MkErr("TypeError", "options.in must be a stream.Readable")
    ELSE IF FailsCapability(r.out)
      THEN MkErr("TypeError", "options.out must be a stream.Writable")
    ELSE IF FailsCapability(r.err)
      THEN MkErr("TypeError", "options.err must be a stream.Writable")
    ELSE NoErr

\* Lines 86-125: the first error of the try block, or NoErr.
ValidationError(ra, o) ==
  IF Truthy(ArgsError(ra)) THEN ArgsError(ra) ELSE OptionsError(o)

\* ---------------------------------------------------- parsing collaborator

HelpFlags == {"--help", "-h", "-?"}
VersionFlags == {"--version", "-V"}
QuietFlags == {"--quiet", "-q"}
VerboseFlags == {"--verbose", "-v"}
KnownFlags == HelpFlags \cup VersionFlags \cup QuietFlags \cup VerboseFlags
UnknownFlags == {"--bogus"}

IsPositional(t) == t \notin KnownFlags \cup UnknownFlags

CountOf(a, flags) == Cardinality({i \in 1..Len(a) : a[i] \in flags})

\* $0 of the usage line: the basename of the script of the hosting process
\* (process.argv[1]), not an element of rawArgs.  When the file is the main
\* module it is the name the file was started under, its own or that of the
\* link npm puts on $PATH; when the entry point is called through the API it
\* is the caller's script, or empty when the caller has none (node -e).
MainScripts == {"cmd.js", "git-branch-is"}
CallerScripts == {"run_api.js", "other_caller.js", ""}
HostScripts(main) == IF main THEN MainScripts ELSE CallerScripts

\* The hosting scripts under which token lists of every length are tried.
LongListScripts == {"cmd.js", "run_api.js"}

\* The help text yargs renders from lines 129-146: the usage line, a blank
\* line and the options table, 80 columns wide.
UsageText(n) ==
  "Usage: " \o n \o " [options] [args...]\n\nOptions:\n"
    \o "  --help, -h, -?  Show help                                            [boolean]\n"
    \o "  --quiet, -q     Print less output                                      [count]\n"
    \o "  --verbose, -v   Print more output                                      [count]\n"
    \o "  --version, -V   Show version number                                  [boolean]"

VersionText == "modulename 0.0.1"

\* The position of the first of the given flags among the tokens.
FirstOf(a, flags) ==
  CHOOSE i \in 1..Len(a) : a[i] \in flags /\ \A j \in 1..(i - 1) : a[j] \notin flags

\* argv._ : the tokens that are no flags, except one that directly follows
\* the unknown flag, which yargs takes as the value of that flag.
RECURSIVE PositionalsFrom(_, _)
PositionalsFrom(a, i) ==
  IF i > Len(a) THEN <<>>
  ELSE (IF IsPositional(a[i]) /\ (i = 1 \/ a[i - 1] \notin UnknownFlags)
          THEN <<a[i]>> ELSE <<>>) \o PositionalsFrom(a, i + 1)

NoArgOpts == [help |-> FALSE, version |-> FALSE, verbose |-> 0, quiet |-> 0, pos |-> <<>>]

\* The option grammar of lines 129-146 applied to the tokens.
ArgOptsOf(a) ==
  [help |-> CountOf(a, HelpFlags) > 0,
   version |-> CountOf(a, VersionFlags) > 0,
   verbose |-> CountOf(a, VerboseFlags),
   quiet |-> CountOf(a, QuietFlags),
   pos |-> PositionalsFrom(a, 1)]

\* Strict mode: an unknown flag is a parse error, unless help or version
\* ends the parse first.
StrictError(a) ==
  IF CountOf(a, UnknownFlags) > 0 /\ ~ArgOptsOf(a).help /\ ~ArgOptsOf(a).version
    THEN MkErr("YError", "Unknown argument: bogus")
    ELSE NoErr

\* The text the parse renders: the help text on help, the version line on
\* version, both in the order the flags come when both are given, the help
\* text and the message on a failure.  n is $0.
RenderedOutput(a, n) ==
  IF Truthy(StrictError(a)) THEN UsageText(n) \o "\n\n" \o StrictError(a).message
  ELSE IF ArgOptsOf(a).help /\ ArgOptsOf(a).version
    THEN IF FirstOf(a, HelpFlags) < FirstOf(a, VersionFlags)
           THEN UsageText(n) \o "\n" \o VersionText
           ELSE VersionText \o "\n" \o UsageText(n)
  ELSE IF ArgOptsOf(a).help THEN UsageText(n)
  ELSE IF ArgOptsOf(a).version THEN VersionText
  ELSE ""

\* What yargs.parse hands to its completion: (err, argv, output).
YargsResult(a, n) ==
  [err |-> StrictError(a), argOpts |-> ArgOptsOf(a), output |-> RenderedOutput(a, n)]

\* What parseYargs hands to the completion from its catch block: (err).
ThrownResult(e) == [err |-> e, argOpts |-> NoArgOpts, output |-> ""]

\* How one call of yargs.parse ends:
\*   "sync"           the completion is called before parse returns
\*   "throwBefore"    a parse error is thrown instead of being passed on
\*   "syncThenThrow"  the completion is called, then parse throws
\*   "later"          the completion is called on a later turn
ParseModes(a) ==
  {"sync", "syncThenThrow", "later"}
    \cup (IF Truthy(StrictError(a)) THEN {"throwBefore"} ELSE {})

LateThrow == MkErr("Error", "thrown after completion")

\* -------------------------------------------------------- wrapped function

DomainErrors ==
  {MkErr("Error", "domain failure"),
   [MkErr("Error", "domain failure") EXCEPT !.exitCodeType = "number", !.exitCode = 3],
   [MkErr("Error", "domain failure") EXCEPT !.exitCodeType = "string"],
   [MkErr("Error", "domain failure") EXCEPT !.stdout = "partial out", !.stderr = "partial err",
                                            !.exitCodeType = "number", !.exitCode = 0]}

\* What the wrapped function reports to its callback: (err, result).
WrappedResults ==
  {[err |-> NoErr, hasCode |-> TRUE, code |-> c] : c \in {0, 2}}
    \cup {[err |-> NoErr, hasCode |-> FALSE, code |-> 0]}
    \cup {[err |-> e, hasCode |-> FALSE, code |-> 0] : e \in DomainErrors}

WrappedModes == {"sync", "later"}

\* ------------------------------------------------------------------ state

VARIABLES
  promiseDefined, \* typeof Promise === 'function' in this environment
  isMainModule,   \* require.main === module when the file was loaded
  hostScript,     \* basename of process.argv[1], the $0 of the usage line
  requireMain,    \* the process-wide require.main: "caller" or "cmd"
  rawArgs,        \* the args argument as the caller passed it
  optionsArg,     \* the options argument as the caller passed it
  callbackArg,    \* the callback argument as the caller passed it
  style,          \* "none", "callback", "deferred", "throws" or "main"
  args,           \* args after lines 87-96
  options,        \* options after lines 102-109: the three resolved handles
  parseMode,      \* how yargs.parse ended ("none" before it is called)
  parsed,         \* what the parse completion received: (err, argOpts, output)
  pc,             \* "idle", "tick", "parsing", "wrapped" or "done"
  tickErr,        \* the error captured by the process.nextTick closure
  handlerRuns,    \* how often the parse completion of line 147 has run
  written,        \* per writable handle, the chunks written so far
  cbCalls,        \* the calls of the completion callback, in order
  wrappedCalls,   \* the CallOptions the wrapped function was invoked with
  reports,        \* what the wrapped function reported to its callback
  thrown,         \* the exception the entry point threw to its caller
  promise,        \* the deferred result the entry point returned
  exit            \* the process: running, exited (process.exit) or crashed

vars ==
  <<promiseDefined, isMainModule, hostScript, requireMain, rawArgs, optionsArg, callbackArg, style, args,
    options, parseMode, parsed, pc, tickErr, handlerRuns, written, cbCalls,
    wrappedCalls, reports, thrown, promise, exit>>

WriteHandles == {"process.stdout", "process.stderr", "user.out", "user.err"}

NoOptions == [in |-> "undefined", out |-> "undefined", err |-> "undefined"]
NoRawArgs == [kind |-> "undefined", elems |-> <<>>]
NoPromise == [state |-> "none", err |-> NoErr, hasCode |-> FALSE, code |-> 0]
Running == [state |-> "running", code |-> 0]

\* The part of the state one invocation works on, as a record.
Machine(st, opts) ==
  [style |-> st, options |-> opts, pc |-> "idle", tickErr |-> NoErr,
   parsed |-> ThrownResult(NoErr), handlerRuns |-> 0,
   written |-> [h \in WriteHandles |-> <<>>], cbCalls |-> <<>>,
   wrappedCalls |-> <<>>, reports |-> <<>>, thrown |-> NoErr,
   promise |-> IF st = "deferred" THEN [NoPromise EXCEPT !.state = "pending"]
               ELSE NoPromise,
   exit |-> Running]

\* Mutant of Write: the text goes to the error stream of the process, whatever
\* handle the options name.
WriteToProcess(m, h, text) == [m EXCEPT !.written["process.stderr"] = Append(@, text)]

\* stream.write(text)
Write(m, h, text) == [m EXCEPT !.written[h] = Append(@, text)]

\* ------------------------------------------------------ completion callback

\* Mutant of PromiseCallback: the error argument is not looked at.
PromiseCallbackResolves(m, err, hasCode, code) ==
  IF m.promise.state # "pending" THEN m
  ELSE [m EXCEPT !.promise = [state |-> "resolved", err |-> NoErr,
                              hasCode |-> hasCode, code |-> code]]

\* Lines 76-78: the callback of the deferred style settles the promise; a
\* settled promise ignores later resolve and reject calls.
PromiseCallback(m, err, hasCode, code) ==
  IF m.promise.state # "pending" THEN m
  ELSE IF Truthy(err)
    THEN [m EXCEPT !.promise = [state |-> "rejected", err |-> err,
                                hasCode |-> FALSE, code |-> 0]]
    ELSE [m EXCEPT !.promise = [state |-> "resolved", err |-> NoErr,
                                hasCode |-> hasCode, code |-> code]]

\* Mutant of ExitCodeOf: the error's own exit code is not looked at.
ExitCodeOfAlwaysOne(err, hasCode, code) ==
  IF Truthy(err) THEN 1 ELSE (IF hasCode THEN code ELSE 0)

\* Line 199 and process.exit(exitCode); an undefined exit code exits 0.
ExitCodeOf(err, hasCode, code) ==
  IF Truthy(err)
    THEN (IF err.exitCodeType = "number" THEN err.exitCode ELSE 1)
    ELSE (IF hasCode THEN code ELSE 0)

\* Mutant of MainCallback: the error's buffered stdout text goes to the error
\* stream as well.
MainCallbackAllToStderr(m, err, hasCode, code) ==
  LET a == IF Truthy(err) /\ err.stdout # ""
             THEN Write(m, "process.stderr", err.stdout) ELSE m
      b == IF Truthy(err) /\ err.stderr # ""
             THEN Write(a, "process.stderr", err.stderr) ELSE a
      c == IF Truthy(err)
             THEN Write(b, "process.stderr", err.name \o ": " \o err.message \o "\n")
             ELSE b
  IN [c EXCEPT !.exit = [state |-> "exited", code |-> ExitCodeOf(err, hasCode, code)]]

\* Lines 193-203: the callback of the process wrapper.
MainCallback(m, err, hasCode, code) ==
  LET a == IF Truthy(err) /\ err.stdout # ""
             THEN Write(m, "process.stdout", err.stdout) ELSE m
      b == IF Truthy(err) /\ err.stderr # ""
             THEN Write(a, "process.stderr", err.stderr) ELSE a
      c == IF Truthy(err)
             THEN Write(b, "process.stderr", err.name \o ": " \o err.message \o "\n")
             ELSE b
  IN [c EXCEPT !.exit = [state |-> "exited", code |-> ExitCodeOf(err, hasCode, code)]]

\* callback(err, result): one call of the completion callback.  inline says
\* whether the entry point is still on the stack.  Nothing runs once the
\* process has exited.
InvokeCallback(m, err, hasCode, code, inline) ==
  IF m.exit.state # "running" THEN m
  ELSE
    LET m1 == [m EXCEPT !.cbCalls = Append(@, [err |-> err, hasCode |-> hasCode,
                                              code |-> code, inline |-> inline,
                                              before |-> m.written]),
                        !.pc = "done"]
    IN CASE m.style = "deferred" -> PromiseCallback(m1, err, hasCode, code)
         [] m.style = "main" -> MainCallback(m1, err, hasCode, code)
         [] OTHER -> m1

\* An exception leaving modulenameCmd: it reaches the caller, or rejects the
\* promise whose executor is running, or ends the process uncaught.
Throw(m, e) ==
  IF m.exit.state # "running" THEN m
  ELSE CASE m.style = "deferred" ->
              IF m.promise.state = "pending"
                THEN [m EXCEPT !.promise = [state |-> "rejected", err |-> e,
                                            hasCode |-> FALSE, code |-> 0]]
                ELSE m
         [] m.style = "main" ->
              [m EXCEPT !.exit = [state |-> "crashed", code |-> 1], !.pc = "done"]
         [] OTHER -> [m EXCEPT !.thrown = e]

\* --------------------------------------------------------------- dispatch

\* Mutant of CmdOpts: the two counters are added.
CmdOptsSum(argOpts) ==
  [files |-> argOpts.pos, verbosity |-> argOpts.verbose + argOpts.quiet]

\* Lines 172-175.
CmdOpts(argOpts) ==
  [files |-> argOpts.pos, verbosity |-> argOpts.verbose - argOpts.quiet]

\* Line 176: modulename(cmdOpts, callback).  The wrapped function reports wr
\* before it returns (wm = "sync") or on a later turn (wm = "later").
CallWrapped(m, cmdOpts, inline, wm, wr) ==
  LET m1 == [m EXCEPT !.wrappedCalls = Append(@, cmdOpts)] IN
  IF wm = "sync"
    THEN InvokeCallback([m1 EXCEPT !.reports = Append(@, wr)],
                        wr.err, wr.hasCode, wr.code, inline)
    ELSE [m1 EXCEPT !.pc = "wrapped"]

\* Mutant of ParseErrorText: the rendered text is never preferred.
ParseErrorTextMessageOnly(r) == r.err.name \o ": " \o r.err.message \o "\n"

\* Lines 149-151: the text written to the error stream on a parse error.
ParseErrorText(r) ==
  IF r.output # "" THEN r.output \o "\n"
  ELSE r.err.name \o ": " \o r.err.message \o "\n"

\* Mutant of IsTerminal: only help ends the processing.
IsTerminalHelpOnly(argOpts) == argOpts.help

\* Line 160: argOpts.help || argOpts.version
IsTerminal(argOpts) == argOpts.help \/ argOpts.version

\* Mutant of WrongPositionalCount: only a missing argument is refused.
WrongPositionalCountZero(argOpts) == Len(argOpts.pos) < 1

\* Line 165: argOpts._.length !== 1
WrongPositionalCount(argOpts) == Len(argOpts.pos) # 1

\* Mutant of Handler: the positional count is checked before the help and
\* version flags.
HandlerCountFirst(m, r, inline, wm, wr) ==
  LET m0 == [m EXCEPT !.handlerRuns = @ + 1, !.parsed = r] IN
  IF Truthy(r.err)
    THEN InvokeCallback(
           Write(m0, m0.options.err, ParseErrorText(r)), NoErr, TRUE, 1, inline)
  ELSE
    LET m1 == IF r.output # "" THEN Write(m0, m0.options.out, r.output \o "\n") ELSE m0 IN
    IF WrongPositionalCount(r.argOpts)
      THEN InvokeCallback(
             Write(m1, m1.options.err, "Error: Exactly one argument is required.\n"),
             NoErr, TRUE, 1, inline)
    ELSE IF IsTerminal(r.argOpts)
      THEN InvokeCallback(m1, NoErr, TRUE, 0, inline)
    ELSE CallWrapped(m1, CmdOpts(r.argOpts), inline, wm, wr)

\* Mutant of Handler: on a wrong positional count the callback is called
\* first and the message is written after it.
HandlerCallbackFirst(m, r, inline, wm, wr) ==
  LET m0 == [m EXCEPT !.handlerRuns = @ + 1, !.parsed = r] IN
  IF Truthy(r.err)
    THEN InvokeCallback(
           Write(m0, m0.options.err, ParseErrorText(r)), NoErr, TRUE, 1, inline)
  ELSE
    LET m1 == IF r.output # "" THEN Write(m0, m0.options.out, r.output \o "\n") ELSE m0 IN
    IF IsTerminal(r.argOpts)
      THEN InvokeCallback(m1, NoErr, TRUE, 0, inline)
    ELSE IF WrongPositionalCount(r.argOpts)
      THEN Write(InvokeCallback(m1, NoErr, TRUE, 1, inline),
                 m1.options.err, "Error: Exactly one argument is required.\n")
    ELSE CallWrapped(m1, CmdOpts(r.argOpts), inline, wm, wr)

\* Lines 147-177: the parse completion function(err, argOpts, output).
Handler(m, r, inline, wm, wr) ==
  LET m0 == [m EXCEPT !.handlerRuns = @ + 1, !.parsed = r] IN
  IF Truthy(r.err)
    THEN InvokeCallback(
           Write(m0, m0.options.err, ParseErrorText(r)), NoErr, TRUE, 1, inline)
  ELSE
    LET m1 == IF r.output # "" THEN Write(m0, m0.options.out, r.output \o "\n") ELSE m0 IN
    IF IsTerminal(r.argOpts)
      THEN InvokeCallback(m1, NoErr, TRUE, 0, inline)
    ELSE IF WrongPositionalCount(r.argOpts)
      THEN InvokeCallback(
             Write(m1, m1.options.err, "Error: Exactly one argument is required.\n"),
             NoErr, TRUE, 1, inline)
    ELSE CallWrapped(m1, CmdOpts(r.argOpts), inline, wm, wr)

\* Mutant of ParseCatch: the catch block does not look at `called` and hands
\* every caught exception to the completion.
ParseCatchRedelivers(m, called, e, wm, wr) ==
  Handler(m, ThrownResult(e), TRUE, wm, wr)

\* Mutant of ParseCatch: an exception caught after the completion has been
\* called is dropped.
ParseCatchSwallows(m, called, e, wm, wr) ==
  IF called THEN m
  ELSE Handler(m, ThrownResult(e), TRUE, wm, wr)

\* Lines 30-37: the catch block of parseYargs.
ParseCatch(m, called, e, wm, wr) ==
  IF called THEN Throw(m, e)
  ELSE Handler(m, ThrownResult(e), TRUE, wm, wr)

\* Lines 20-38: parseYargs, up to the return of yargs.parse.
ParseYargs(m, a, pm, wm, wr) ==
  CASE pm = "sync" -> Handler(m, YargsResult(a, hostScript), TRUE, wm, wr)
    [] pm = "syncThenThrow" ->
         ParseCatch(Handler(m, YargsResult(a, hostScript), TRUE, wm, wr), TRUE, LateThrow, wm, wr)
    [] pm = "throwBefore" -> ParseCatch(m, FALSE, StrictError(a), wm, wr)
    [] OTHER -> [m EXCEPT !.pc = "parsing"]

\* Mutant of DeferError: the validation error is rethrown to the caller.
DeferErrorThrows(m, e) == Throw([m EXCEPT !.pc = "done"], e)

\* Lines 120-125: the catch block of the validation.
DeferError(m, e) == [m EXCEPT !.tickErr = e, !.pc = "tick"]

\* Lines 67-180: the entry point, up to its return.
Entry(st, ra, o, pm, wm, wr) ==
  IF st = "throws"
    THEN [Machine(st, NoOptions) EXCEPT
            !.thrown = MkErr("TypeError", "callback must be a function"), !.pc = "done"]
  ELSE IF Truthy(ValidationError(ra, o))
    THEN DeferError(Machine(st, NoOptions), ValidationError(ra, o))
  ELSE ParseYargs(Machine(st, AssignOptions(o)), NormArgs(ra), pm, wm, wr)

\* ---------------------------------------------------------------- actions

Init ==
  /\ promiseDefined \in BOOLEAN
  /\ isMainModule \in BOOLEAN
  /\ hostScript \in HostScripts(isMainModule)
  /\ requireMain = IF isMainModule THEN "cmd" ELSE "caller"
  /\ rawArgs = NoRawArgs
  /\ optionsArg = NullOptions
  /\ callbackArg = "absent"
  /\ style = "none"
  /\ args = <<>>
  /\ options = NoOptions
  /\ parseMode = "none"
  /\ parsed = ThrownResult(NoErr)
  /\ pc = "idle"
  /\ tickErr = NoErr
  /\ handlerRuns = 0
  /\ written = [h \in WriteHandles |-> <<>>]
  /\ cbCalls = <<>>
  /\ wrappedCalls = <<>>
  /\ reports = <<>>
  /\ thrown = NoErr
  /\ promise = NoPromise
  /\ exit = Running

\* The variables an invocation works on take the machine's values.
Store(m) ==
  /\ pc' = m.pc
  /\ tickErr' = m.tickErr
  /\ parsed' = m.parsed
  /\ handlerRuns' = m.handlerRuns
  /\ written' = m.written
  /\ cbCalls' = m.cbCalls
  /\ wrappedCalls' = m.wrappedCalls
  /\ reports' = m.reports
  /\ thrown' = m.thrown
  /\ promise' = m.promise
  /\ exit' = m.exit

Current ==
  [style |-> style, options |-> options, pc |-> pc, tickErr |-> tickErr,
   parsed |-> parsed, handlerRuns |-> handlerRuns, written |-> written,
   cbCalls |-> cbCalls, wrappedCalls |-> wrappedCalls, reports |-> reports,
   thrown |-> thrown,
   promise |-> promise, exit |-> exit]

\* Whether the call gets as far as parsing.
Parses(st, ra, o) == st # "throws" /\ ~Truthy(ValidationError(ra, o))

\* Whether the parse result leads to the wrapped function.
Dispatches(r) ==
  ~Truthy(r.err) /\ ~r.argOpts.help /\ ~r.argOpts.version /\ Len(r.argOpts.pos) = 1

\* The environment's choices that the call can observe.
ParseModesFor(st, ra, o) ==
  IF Parses(st, ra, o) THEN ParseModes(NormArgs(ra)) ELSE {"none"}

WrappedModesFor(st, ra, o, pm) ==
  IF Parses(st, ra, o) /\ pm \in {"sync", "syncThenThrow"}
     /\ Dispatches(YargsResult(NormArgs(ra), hostScript))
    THEN WrappedModes ELSE {"later"}

WrappedResultsFor(wm) ==
  IF wm = "sync" THEN WrappedResults ELSE {[err |-> NoErr, hasCode |-> FALSE, code |-> 0]}

\* The inputs are bounded: token lists longer than MaxArgsInvalid come only
\* with calls that reach the parser, in an environment that has Promise and
\* one of the LongListScripts as hosting script, and whose callback is a
\* function or is left out.
InputsBounded(st, ra, ca, o) ==
  \/ Len(ra.elems) <= MaxArgsInvalid + 2
  \/ /\ promiseDefined /\ hostScript \in LongListScripts
     /\ ca \in {"absent", "function"} /\ Parses(st, ra, o)

\* Mutant of RequireMainAfter: the assignment comes before the validation.
RequireMainAlways(parses, rm) == "cmd"

\* Lines 127-128: require.main = module, once validation has passed.
RequireMainAfter(parses, rm) == IF parses THEN "cmd" ELSE rm

\* Mutant of ArgsAfterCall: the first two elements are removed from the
\* caller's own array (splice in place of slice).
ArgsAfterCallSpliced(ra) ==
  IF ra.kind = "array" /\ Len(ra.elems) >= 2
    THEN [ra EXCEPT !.elems = SubSeq(ra.elems, 3, Len(ra.elems))]
    ELSE ra

\* Line 95: the caller's rawArgs after the call.  Array.prototype.slice
\* returns a new array and map(String) maps that one.
ArgsAfterCall(ra) == ra

\* Lines 102-109: the caller's options after the call.  The target of
\* assign is the object literal with the defaults, options is its source.
OptionsAfterCall(oa) == oa

\* One synchronous run of the entry point on the given inputs.
Enter(st, ra, oa, ca, o) ==
  /\ InputsBounded(st, ra, ca, o)
  /\ rawArgs' = ArgsAfterCall(ra)
  /\ optionsArg' = OptionsAfterCall(oa)
  /\ callbackArg' = ca
  /\ style' = st
  /\ args' = IF Truthy(ArgsError(ra)) \/ st = "throws" THEN <<>> ELSE NormArgs(ra)
  /\ options' = IF Parses(st, ra, o) THEN AssignOptions(o) ELSE NoOptions
  /\ requireMain' = RequireMainAfter(Parses(st, ra, o), requireMain)
  /\ UNCHANGED <<promiseDefined, isMainModule, hostScript>>
  /\ \E pm \in ParseModesFor(st, ra, o) :
       \E wm \in WrappedModesFor(st, ra, o, pm) :
         \E wr \in WrappedResultsFor(wm) :
           /\ parseMode' = pm
           /\ Store(Entry(st, ra, o, pm, wm, wr))

\* modulenameCmd(args, options, callback) called through the API.
Call ==
  /\ pc = "idle"
  /\ ~isMainModule
  /\ \E ra \in RawArgsInputs(MaxArgs), oa \in OptionsInputs, ca \in CallbackInputs :
       Enter(StyleOf(oa, ca, promiseDefined), ra, oa, ca, NormOptions(oa, ca))

\* Lines 185-204: the file is the main module; process.argv and mainOptions.
Main ==
  /\ pc = "idle"
  /\ isMainModule
  /\ \E t \in TokenLists(MaxArgs) :
       Enter("main", [kind |-> "array", elems |-> <<"node", "cmd">> \o t],
             MainOptions, "function", MainOptions)

\* Lines 121-123: the process.nextTick callback.
Tick ==
  /\ pc = "tick"
  /\ Store(InvokeCallback(Current, tickErr, FALSE, 0, FALSE))
  /\ UNCHANGED <<promiseDefined, isMainModule, hostScript, requireMain, rawArgs, optionsArg,
                 callbackArg, style, args, options, parseMode>>

\* The parse completion arrives on a later turn.
ParseCompletes ==
  /\ pc = "parsing"
  /\ \E wm \in (IF Dispatches(YargsResult(args, hostScript)) THEN WrappedModes ELSE {"later"}) :
       \E wr \in WrappedResultsFor(wm) :
         Store(Handler(Current, YargsResult(args, hostScript), FALSE, wm, wr))
  /\ UNCHANGED <<promiseDefined, isMainModule, hostScript, requireMain, rawArgs, optionsArg,
                 callbackArg, style, args, options, parseMode>>

\* The wrapped function reports on a later turn.
WrappedCompletes ==
  /\ pc = "wrapped"
  /\ exit.state = "running"
  /\ \E wr \in WrappedResults :
       Store(InvokeCallback([Current EXCEPT !.reports = Append(@, wr)],
                            wr.err, wr.hasCode, wr.code, FALSE))
  /\ UNCHANGED <<promiseDefined, isMainModule, hostScript, requireMain, rawArgs, optionsArg,
                 callbackArg, style, args, options, parseMode>>

\* The invocation is over and the process lives on: the locals of the
\* invocation are gone, the process-wide state stays as the invocation left
\* it, and the entry point can be called again.
Again ==
  /\ pc = "done"
  /\ exit.state = "running"
  /\ rawArgs' = NoRawArgs
  /\ optionsArg' = NullOptions
  /\ callbackArg' = "absent"
  /\ style' = "none"
  /\ args' = <<>>
  /\ options' = NoOptions
  /\ parseMode' = "none"
  /\ Store(Machine("none", NoOptions))
  /\ UNCHANGED <<promiseDefined, isMainModule, hostScript, requireMain>>

Next == Call \/ Main \/ Tick \/ ParseCompletes \/ WrappedCompletes \/ Again

Spec == Init /\ [][Next]_vars

\* ----------------------------------------------------------------- claims

\* Counting on the caller's tokens, independent of the parser model.
NumOf(a, t) == Cardinality({i \in 1..Len(a) : a[i] = t})
Has(a, t) == NumOf(a, t) > 0

\* The tokens the caller passed after the two leading entries.
CallerTokens ==
  IF rawArgs.kind = "array" /\ Len(rawArgs.elems) >= 2
    THEN SubSeq(rawArgs.elems, 3, Len(rawArgs.elems)) ELSE <<>>

\* The invocation has been made with a usable completion.
Invoked == style \in {"callback", "deferred", "main"}

\* A callback call as the pair the callee sees.
Reported(c) == [err |-> c.err, hasCode |-> c.hasCode, code |-> c.code]
Outcome(err, hasCode, code) == [err |-> err, hasCode |-> hasCode, code |-> code]

NothingWritten == \A h \in WriteHandles : written[h] = <<>>

\* C1: in callback style the caller's completion callback is called exactly
\* once per invocation: never twice at any moment, not before the pending
\* step (next tick, parse completion, wrapped function) has run, and exactly
\* once when the invocation has ended, also when the parsing collaborator
\* throws after its completion has fired.
C1_CallbackExactlyOnce ==
  style = "callback" =>
    /\ Len(cbCalls) <= 1
    /\ pc \in {"tick", "parsing", "wrapped"} => Len(cbCalls) = 0
    /\ pc = "done" => Len(cbCalls) = 1

C1_Witness ==
  /\ style = "callback"
  /\ parseMode = "syncThenThrow"
  /\ thrown = LateThrow
  /\ pc = "done"
  /\ Len(cbCalls) = 1

\* C2: the caller's completion callback never runs while the entry point is
\* still on the stack.
C2_NeverInline ==
  style = "callback" => \A i \in 1..Len(cbCalls) : ~cbCalls[i].inline

\* The case of C3: validation passed, the tokens hold no help, version or
\* unknown flag and exactly one positional argument, and the parse completion
\* has run.
C3_Case ==
  /\ Invoked
  /\ handlerRuns >= 1
  /\ ~Has(CallerTokens, "--help") /\ ~Has(CallerTokens, "--version")
  /\ ~Has(CallerTokens, "--bogus")
  /\ NumOf(CallerTokens, "x") = 1

\* C3: in that case the wrapped function is invoked exactly once with the
\* positional arguments and verbosity = verbose count - quiet count, the
\* callback receives exactly what the wrapped function reported, and the
\* dispatcher writes nothing to the error stream.
C3_DispatchOnce ==
  C3_Case =>
    /\ wrappedCalls =
         <<[files |-> <<"x">>,
            verbosity |-> NumOf(CallerTokens, "-v") - NumOf(CallerTokens, "-q")]>>
    /\ Len(reports) <= 1
    /\ Len(cbCalls) = Len(reports)
    /\ \A i \in 1..Len(cbCalls) : Reported(cbCalls[i]) = reports[i]
    /\ (pc = "done" /\ exit.state # "crashed") => Len(cbCalls) = 1
    /\ style # "main" => written[options.err] = <<>>
    /\ (style = "main" /\ \A i \in 1..Len(reports) : ~Truthy(reports[i].err))
         => written[options.err] = <<>>

C3_Witness ==
  /\ C3_Case
  /\ args = <<"-v", "-v", "-q", "x">>
  /\ pc = "done"
  /\ wrappedCalls = <<[files |-> <<"x">>, verbosity |-> 1]>>
  /\ Len(cbCalls) = 1
  /\ cbCalls[1].hasCode /\ cbCalls[1].code = 2

\* The case of C4: no parse error, no help or version flag, and zero or at
\* least two positional arguments, and the parse completion has run.
C4_Case ==
  /\ Invoked
  /\ handlerRuns >= 1
  /\ ~Has(CallerTokens, "--help") /\ ~Has(CallerTokens, "--version")
  /\ ~Has(CallerTokens, "--bogus")
  /\ NumOf(CallerTokens, "x") # 1

\* C4: in that case the wrapped function is never invoked, the error stream
\* receives exactly the one message, nothing goes to the output stream, and
\* the callback reports a null error with exit code 1.
C4_PositionalCountError ==
  C4_Case =>
    /\ wrappedCalls = <<>>
    /\ written[options.err] = <<"Error: Exactly one argument is required.\n">>
    /\ written[options.out] = <<>>
    /\ Len(cbCalls) = 1
    /\ Reported(cbCalls[1]) = Outcome(NoErr, TRUE, 1)

C4_Witness ==
  /\ C4_Case
  /\ NumOf(CallerTokens, "x") = 2
  /\ Has(CallerTokens, "-v")
  /\ Len(cbCalls) = 1
  /\ written[options.err] = <<"Error: Exactly one argument is required.\n">>

\* The case of C5: the tokens carry --help or --version and the parse
\* completion has run.
C5_Case ==
  /\ Invoked
  /\ handlerRuns >= 1
  /\ Has(CallerTokens, "--help") \/ Has(CallerTokens, "--version")

\* The help text as the invocation renders it.
HelpRendered == UsageText(hostScript)

\* C5: in that case the callback reports exit code 0, the output stream
\* receives the rendered text (the help text, the version line, or both in
\* either order when both flags are given), nothing goes to the error
\* stream, and the wrapped function is never invoked, whatever the
\* positional arguments.
C5_HelpVersion ==
  C5_Case =>
    /\ Len(cbCalls) = 1
    /\ Reported(cbCalls[1]) = Outcome(NoErr, TRUE, 0)
    /\ Len(written[options.out]) = 1
    /\ ~Has(CallerTokens, "--version") => written[options.out][1] = HelpRendered \o "\n"
    /\ ~Has(CallerTokens, "--help") => written[options.out][1] = VersionText \o "\n"
    /\ (Has(CallerTokens, "--help") /\ Has(CallerTokens, "--version")) =>
         written[options.out][1] \in
           {HelpRendered \o "\n" \o VersionText \o "\n",
            VersionText \o "\n" \o HelpRendered \o "\n"}
    /\ written[options.err] = <<>>
    /\ wrappedCalls = <<>>

C5_Witness ==
  /\ C5_Case
  /\ Has(CallerTokens, "--version") /\ ~Has(CallerTokens, "--help")
  /\ NumOf(CallerTokens, "x") = 1
  /\ written[options.out] = <<VersionText \o "\n">>
  /\ Len(cbCalls) = 1

\* The case of C6: the tokens hold an unknown flag and neither help nor
\* version, so that the parse fails, and the parse completion has run.
C6_Case ==
  /\ Invoked
  /\ handlerRuns >= 1
  /\ Has(CallerTokens, "--bogus")
  /\ ~Has(CallerTokens, "--help") /\ ~Has(CallerTokens, "--version")

\* C6: on a parse error the error stream receives the rendered text when the
\* collaborator passed one on, and the error's name and message when it threw
\* the error instead; the callback reports a null error with exit code 1,
\* nothing goes to the output stream and the wrapped function is not invoked.
C6_ParseError ==
  C6_Case =>
    /\ Truthy(parsed.err)
    /\ written[options.err] =
         <<IF parseMode = "throwBefore"
             THEN "YError: Unknown argument: bogus\n"
             ELSE HelpRendered \o "\n\nUnknown argument: bogus\n">>
    /\ written[options.out] = <<>>
    /\ Len(cbCalls) = 1
    /\ Reported(cbCalls[1]) = Outcome(NoErr, TRUE, 1)
    /\ wrappedCalls = <<>>

C6_Witness ==
  /\ C6_Case
  /\ parseMode = "sync"
  /\ args = <<"--bogus", "x">>
  /\ written[options.err] = <<HelpRendered \o "\n\nUnknown argument: bogus\n">>
  /\ Len(cbCalls) = 1

\* The inputs that fail validation, read off the caller's arguments.
BadRawArgs ==
  \/ rawArgs.kind \in {"primitive", "noLength"}
  \/ rawArgs.kind = "array" /\ Len(rawArgs.elems) < 2

BadOptionsArg ==
  \/ optionsArg.kind = "primitive"
  \/ optionsArg.kind = "function" /\ ~Falsy(callbackArg)
  \/ /\ optionsArg.kind = "object"
     /\ \E v \in {optionsArg.in, optionsArg.out, optionsArg.err} :
          v \in {"undefined", "null", "noMethod"}

\* The case of C7: the callback is usable and an argument fails validation.
C7_Case ==
  /\ style \in {"callback", "deferred"}
  /\ BadRawArgs \/ BadOptionsArg

\* C7: a validation failure is never thrown from the entry point; it is
\* handed to the callback as an error, on a later turn and once; no parsing
\* happens, the wrapped function is not invoked and nothing is written.
C7_ValidationFailure ==
  C7_Case =>
    /\ thrown = NoErr
    /\ parseMode = "none" /\ handlerRuns = 0
    /\ wrappedCalls = <<>>
    /\ NothingWritten
    /\ \/ pc = "tick" /\ cbCalls = <<>> /\ Truthy(tickErr)
       \/ /\ pc = "done"
          /\ Len(cbCalls) = 1
          /\ cbCalls[1].err = tickErr
          /\ cbCalls[1].err.name \in {"TypeError", "RangeError"}
          /\ ~cbCalls[1].hasCode
          /\ ~cbCalls[1].inline

C7_Witness ==
  /\ C7_Case
  /\ style = "callback"
  /\ optionsArg.kind = "object" /\ optionsArg.err = "noMethod"
  /\ pc = "done"
  /\ Len(cbCalls) = 1
  /\ cbCalls[1].err = MkErr("TypeError", "options.err must be a stream.Writable")

\* The case of C8: rawArgs is null or undefined and the callback is usable.
C8_Case ==
  /\ style \in {"callback", "deferred"}
  /\ rawArgs.kind \in {"undefined", "null"}

\* C8: a null or undefined rawArgs is no validation failure: no error about
\* args is raised, args is the empty list (as for ["node", "cmd"]), and with
\* options that pass validation the call goes on to the parser; once the
\* parse completion has run the error stream holds the one message, the
\* callback has reported (null, 1) and the wrapped function is not invoked.
C8_NullArgsAreEmpty ==
  C8_Case =>
    /\ tickErr.message \notin
         {"args must be Array-like", "args must have at least 2 elements"}
    /\ args = SliceArgs(<<"node", "cmd">>)
    /\ ~BadOptionsArg => (pc # "tick" /\ tickErr = NoErr /\ parseMode # "none")
    /\ handlerRuns >= 1 =>
         /\ written[options.err] = <<"Error: Exactly one argument is required.\n">>
         /\ Len(cbCalls) = 1
         /\ Reported(cbCalls[1]) = Outcome(NoErr, TRUE, 1)
         /\ wrappedCalls = <<>>

C8_Witness ==
  /\ C8_Case
  /\ rawArgs.kind = "null"
  /\ pc = "done"
  /\ handlerRuns = 1
  /\ written[options.err] = <<"Error: Exactly one argument is required.\n">>
  /\ Len(cbCalls) = 1

\* How the deferred result settles for one callback call.
Settled(c) ==
  IF Truthy(c.err)
    THEN [state |-> "rejected", err |-> c.err, hasCode |-> FALSE, code |-> 0]
    ELSE [state |-> "resolved", err |-> NoErr, hasCode |-> c.hasCode, code |-> c.code]

\* The parsing collaborator threw after its completion had invoked the
\* wrapped function, whose report was still to come.
ThrownWhilePending ==
  /\ parseMode = "syncThenThrow"
  /\ Len(wrappedCalls) = 1
  /\ Len(cbCalls) = 0 \/ ~cbCalls[1].inline

\* C9 as stated: the deferred result is pending until the callback of the
\* callback style is called, and then resolves to the exit code or rejects
\* with the error according to that call; validation and dispatch run once.
C9_DeferredAgrees ==
  style = "deferred" =>
    /\ Len(cbCalls) <= 1 /\ handlerRuns <= 1 /\ Len(wrappedCalls) <= 1
    /\ Len(cbCalls) = 0 => promise.state = "pending"
    /\ Len(cbCalls) = 1 => promise = Settled(cbCalls[1])

\* C9 amended: as stated, except when the parsing collaborator throws after
\* its completion has invoked the wrapped function and before the wrapped
\* function reports: the deferred result then rejects with the thrown error
\* and the later report of the wrapped function no longer changes it.
C9_DeferredAgreesUnlessThrown ==
  style = "deferred" =>
    /\ Len(cbCalls) <= 1 /\ handlerRuns <= 1 /\ Len(wrappedCalls) <= 1
    /\ thrown = NoErr
    /\ ThrownWhilePending =>
         promise = [state |-> "rejected", err |-> LateThrow, hasCode |-> FALSE, code |-> 0]
    /\ (~ThrownWhilePending /\ Len(cbCalls) = 0) => promise.state = "pending"
    /\ (~ThrownWhilePending /\ Len(cbCalls) = 1) => promise = Settled(cbCalls[1])

C9_Witness ==
  /\ style = "deferred"
  /\ pc = "done"
  /\ Len(wrappedCalls) = 1
  /\ Len(cbCalls) = 1
  /\ Truthy(cbCalls[1].err)
  /\ promise.state = "rejected"
  /\ promise.err = cbCalls[1].err

\* The exit code the interface documents for the outcome of the invocation.
C10_Expected ==
  IF Has(CallerTokens, "--help") \/ Has(CallerTokens, "--version") THEN 0
  ELSE IF Has(CallerTokens, "--bogus") THEN 1
  ELSE IF NumOf(CallerTokens, "x") # 1 THEN 1
  ELSE IF reports = <<>> THEN 1
  ELSE IF Truthy(reports[1].err)
    THEN (IF reports[1].err.exitCodeType = "number" THEN reports[1].err.exitCode ELSE 1)
  ELSE IF reports[1].hasCode THEN reports[1].code
  ELSE 0

\* C10: when the process wrapper exits the process, the exit code is 0 for
\* help, version and success, 1 for a parse error, a positional-count error
\* and a domain error without a numeric exitCode, and otherwise the numeric
\* code the error carries or the wrapped function returned; and an error the
\* wrapped function reports is the error the callback receives.
C10_ExitCode ==
  /\ (style = "main" /\ exit.state = "exited") =>
       /\ Len(cbCalls) = 1
       /\ exit.code = C10_Expected
  /\ \A i \in 1..Len(reports) : Len(cbCalls) >= i /\ cbCalls[i].err = reports[i].err

C10_Witness ==
  /\ style = "main"
  /\ exit.state = "exited"
  /\ Len(reports) = 1
  /\ reports[1].err.exitCodeType = "number" /\ reports[1].err.exitCode = 3
  /\ exit.code = 3

\* The error stream of the invocation: the resolved handle, or the process
\* stream when validation resolved none.
ErrStream == IF options = NoOptions THEN "process.stderr" ELSE options.err
OutStream == IF options = NoOptions THEN "process.stdout" ELSE options.out

\* The text of an error as the wrapper prints it.
ErrorLine(e) == e.name \o ": " \o e.message \o "\n"

Chunk(text) == IF text # "" THEN <<text>> ELSE <<>>

\* The invocation has ended in a failure: the callback got an error, or the
\* dispatcher itself reported exit code 1.
C11_Failed ==
  /\ Invoked
  /\ Len(cbCalls) = 1
  /\ Truthy(cbCalls[1].err) \/ (reports = <<>> /\ cbCalls[1].code = 1)

\* C11 as stated: on every failing invocation the error stream holds the
\* error text and the text buffered on the error (its stdout and stderr), and
\* the output stream holds nothing.
C11_AllToErrorStream ==
  C11_Failed =>
    /\ written[OutStream] = <<>>
    /\ Truthy(cbCalls[1].err) =>
         written[ErrStream] =
           Chunk(cbCalls[1].err.stdout) \o Chunk(cbCalls[1].err.stderr)
             \o <<ErrorLine(cbCalls[1].err)>>
    /\ ~Truthy(cbCalls[1].err) => Len(written[ErrStream]) = 1

\* C11 amended: a parse error or positional-count error puts one message on
\* the error stream and nothing on the output stream; an error handed to the
\* callback of an API caller is written nowhere by the dispatcher; the
\* process wrapper writes the error's buffered stdout text to the output
\* stream, and its buffered stderr text followed by its name and message to
\* the error stream.
C11_FailureOutput ==
  C11_Failed =>
    /\ ~Truthy(cbCalls[1].err) =>
         /\ Len(written[options.err]) = 1
         /\ written[options.out] = <<>>
    /\ (Truthy(cbCalls[1].err) /\ style # "main") => NothingWritten
    /\ (Truthy(cbCalls[1].err) /\ style = "main") =>
         /\ written["process.stdout"] = Chunk(cbCalls[1].err.stdout)
         /\ written["process.stderr"] =
              Chunk(cbCalls[1].err.stderr) \o <<ErrorLine(cbCalls[1].err)>>
         /\ written["user.out"] = <<>> /\ written["user.err"] = <<>>

C11_Witness ==
  /\ C11_Failed
  /\ style = "main"
  /\ exit.state = "exited"
  /\ written["process.stdout"] = <<"partial out">>
  /\ written["process.stderr"] = <<"partial err", "Error: domain failure\n">>

Roles == {"in", "out", "err"}

\* The message of the validation error of one stream role.
RoleMessage(r) ==
  "options." \o r \o " must be a stream."
    \o (IF r = "in" THEN "Readable" ELSE "Writable")

\* C12: for each stream role, a stream supplied by the caller is the one the
\* dispatcher resolves, never the process-wide default; a role the caller
\* leaves unresolved (key absent or value undefined) does not fail validation
\* and resolves to the process-wide default stream.
C12_StreamResolution ==
  (style \in {"callback", "deferred"} /\ optionsArg.kind = "object") =>
    \A r \in Roles :
      /\ optionsArg[r] \in {"absent", "undefined"} => tickErr.message # RoleMessage(r)
      /\ (options # NoOptions /\ optionsArg[r] = "user") => options[r] = "user." \o r
      /\ (options # NoOptions /\ optionsArg[r] \in {"absent", "undefined"})
           => options[r] = DefaultStream(r)

\* C13: parseYargs calls its completion exactly once per parse: an error
\* thrown before the completion goes to the completion, once, and to nobody
\* else; an error thrown after the completion has been called is not handed
\* to the completion again and is not dropped: it leaves the entry point (it
\* reaches the caller, rejects the pending deferred result, or ends the
\* process).
C13_CompletionOnce ==
  Invoked =>
    /\ handlerRuns <= 1
    /\ parseMode \in {"sync", "throwBefore", "syncThenThrow"} => handlerRuns = 1
    /\ parseMode = "later" => (handlerRuns = 0 <=> pc = "parsing")
    /\ parseMode = "throwBefore" =>
         /\ parsed = [err |-> MkErr("YError", "Unknown argument: bogus"),
                      argOpts |-> NoArgOpts, output |-> ""]
         /\ thrown = NoErr
         /\ promise.state # "rejected"
         /\ exit.state # "crashed"
    /\ parseMode = "syncThenThrow" =>
         /\ parsed.err # LateThrow
         /\ style = "callback" => thrown = LateThrow
         /\ style = "deferred" =>
              /\ promise.state # "pending"
              /\ (Len(cbCalls) = 0 \/ ~cbCalls[1].inline) => promise.err = LateThrow
         /\ style = "main" => exit.state \in {"exited", "crashed"}
    /\ parseMode # "syncThenThrow" => (thrown = NoErr /\ exit.state # "crashed")

C13_Witness ==
  /\ style = "callback"
  /\ parseMode = "syncThenThrow"
  /\ handlerRuns = 1
  /\ pc = "wrapped"
  /\ thrown = LateThrow
  /\ parsed = YargsResult(args, hostScript)

CountMessage == "Error: Exactly one argument is required.\n"

\* The four outcomes, read off what the invocation did.
SawParseError ==
  /\ Len(written[options.err]) >= 1
  /\ written[options.err][1] \in
       {"YError: Unknown argument: bogus\n",
        HelpRendered \o "\n\nUnknown argument: bogus\n"}

SawCountError == \E i \in 1..Len(written[options.err]) : written[options.err][i] = CountMessage

SawTerminal ==
  /\ wrappedCalls = <<>>
  /\ Len(cbCalls) = 1
  /\ Reported(cbCalls[1]) = Outcome(NoErr, TRUE, 0)

SawDispatch == Len(wrappedCalls) >= 1

\* The outcome the priority order gives.
C14_Expected ==
  IF Truthy(parsed.err) THEN "parseError"
  ELSE IF Has(CallerTokens, "--help") \/ Has(CallerTokens, "--version") THEN "terminal"
  ELSE IF NumOf(CallerTokens, "x") # 1 THEN "countError"
  ELSE "dispatch"

\* C14: once the parse completion has run, the invocation shows exactly one
\* of the four outcomes, the one the priority order parse error, terminal
\* flag, positional count, dispatch gives; the wrapped function is invoked in
\* the last outcome only, and at most once.
C14_OneOutcome ==
  (Invoked /\ handlerRuns >= 1) =>
    /\ SawParseError <=> C14_Expected = "parseError"
    /\ SawTerminal <=> C14_Expected = "terminal"
    /\ SawCountError <=> C14_Expected = "countError"
    /\ SawDispatch <=> C14_Expected = "dispatch"
    /\ Len(wrappedCalls) <= 1
    /\ Truthy(parsed.err) <=>
         (Has(CallerTokens, "--bogus") /\ ~Has(CallerTokens, "--help")
            /\ ~Has(CallerTokens, "--version"))

C14_Witness ==
  /\ Invoked
  /\ handlerRuns = 1
  /\ Has(CallerTokens, "--help")
  /\ NumOf(CallerTokens, "x") = 2
  /\ SawTerminal
  /\ ~SawCountError

\* C15 as stated: whatever invocations have been made, the process-wide
\* state is what it was before the first one.
C15_NothingDiffers ==
  requireMain = IF isMainModule THEN "cmd" ELSE "caller"

\* C15 amended: no step changes the process-wide state except that an
\* invocation that passes validation sets require.main to the command module
\* when it enters; and every parse runs with require.main set so, whatever
\* the earlier invocations left.
C15_OnlyRequireMain ==
  [][/\ promiseDefined' = promiseDefined
     /\ isMainModule' = isMainModule
     /\ hostScript' = hostScript
     /\ requireMain' # requireMain =>
          (requireMain' = "cmd" /\ pc = "idle" /\ parseMode' # "none")
     /\ parseMode' # "none" => requireMain' = "cmd"]_vars

\* An invocation that fails validation while require.main is already the
\* command module: an earlier invocation has set it.
C15_Witness ==
  /\ ~isMainModule
  /\ requireMain = "cmd"
  /\ style = "callback"
  /\ parseMode = "none"
  /\ pc = "done"
  /\ Len(cbCalls) = 1

\* C16: the handles resolved by validation stay what validation made of the
\* caller's options for the rest of the invocation, and every chunk written
\* is on the resolved out handle or the resolved err handle.
C16_ResolvedHandlesOnly ==
  (Invoked /\ parseMode # "none") =>
    /\ options = AssignOptions(NormOptions(optionsArg, callbackArg))
    /\ \A h \in WriteHandles :
         written[h] # <<>> => h \in {options.out, options.err}

\* A parse error reported on the caller's own err handle, while the out
\* handle is the default of the process.
C16_Witness ==
  /\ Invoked /\ style = "callback" /\ pc = "done"
  /\ options.err = "user.err" /\ options.out = "process.stdout"
  /\ written["user.err"] # <<>>
  /\ written["process.stderr"] = <<>>

\* What has been written in all, at the moment of the i-th callback call.
WrittenBefore(i) == cbCalls[i].before

\* C17: on the help, version, parse-error and positional-count paths the
\* chunks on the streams are those that were there when the callback was
\* called, and the text of the path is among them.
C17_WritesBeforeCallback ==
  (Invoked /\ handlerRuns >= 1 /\ wrappedCalls = <<>> /\ Len(cbCalls) >= 1) =>
    /\ written = WrittenBefore(1)
    /\ SawParseError => WrittenBefore(1)[options.err] = <<ParseErrorText(parsed)>>
    /\ SawCountError => WrittenBefore(1)[options.err] = <<CountMessage>>
    /\ (~Truthy(parsed.err) /\ parsed.output # "") =>
         WrittenBefore(1)[options.out] = <<parsed.output \o "\n">>

\* A positional-count error reported to a caller's callback after the message
\* was written.
C17_Witness ==
  /\ Invoked /\ style = "callback" /\ pc = "done"
  /\ SawCountError
  /\ Len(cbCalls) = 1
  /\ WrittenBefore(1)[options.err] = <<CountMessage>>

\* C18: after an invocation that reached the parser, the caller's rawArgs
\* still holds the two leading elements and every token the private copy
\* holds, the caller's options has no key where a default was filled in, and
\* the CallOptions the wrapped function got is built from this invocation's
\* parse result.
C18_CallerInputsKept ==
  (Invoked /\ parseMode # "none") =>
    /\ rawArgs.kind = "array" =>
         /\ Len(rawArgs.elems) = Len(args) + 2
         /\ SubSeq(rawArgs.elems, 1, 2) = <<"node", "cmd">>
         /\ \A i \in 1..Len(args) : rawArgs.elems[i + 2] = args[i]
    /\ rawArgs.kind # "array" => (rawArgs \in NonArrayArgs /\ args = <<>>)
    /\ style = "main" => optionsArg = MainOptions
    /\ style # "main" =>
         /\ optionsArg \in OptionsInputs
         /\ \A r \in Roles :
              options[r] = DefaultStream(r) <=> optionsArg[r] = "absent"
    /\ \A i \in 1..Len(wrappedCalls) : wrappedCalls[i] = CmdOpts(parsed.argOpts)

\* A dispatching call with tokens, whose options object names only the err
\* stream.
C18_Witness ==
  /\ Invoked /\ style = "callback" /\ pc = "done"
  /\ Len(args) >= 2
  /\ Len(wrappedCalls) = 1
  /\ optionsArg.kind = "object"
  /\ optionsArg.err = "user" /\ optionsArg.out = "absent" /\ optionsArg.in = "absent"

\* C19 as stated: whenever the callback argument is a value that is not a
\* function, the entry point throws.
C19_NonFunctionThrows ==
  (style # "none" /\ callbackArg \in {"falsy", "notFunction"}) => style = "throws"

\* The TypeError of line 83, thrown with nothing else done.
C19_ThrewOnly ==
  /\ thrown = MkErr("TypeError", "callback must be a function")
  /\ pc = "done"
  /\ parseMode = "none" /\ tickErr = NoErr /\ handlerRuns = 0
  /\ NothingWritten
  /\ wrappedCalls = <<>> /\ cbCalls = <<>>
  /\ promise.state = "none"
  /\ exit = Running

\* C19 amended: a function in the options position with a falsy callback is
\* the callback, and the call is the callback style with the default
\* handles; the entry point throws exactly when the callback is a truthy
\* non-function, or is falsy with no function in the options position and no
\* Promise; and a call that throws does nothing else.
C19_Normalisation ==
  (style # "none" /\ ~isMainModule) =>
    /\ (optionsArg.kind = "function" /\ Falsy(callbackArg)) =>
         /\ style = "callback"
         /\ parseMode # "none" <=> ~BadRawArgs
         /\ parseMode # "none" => options = AssignOptions(NullOptions)
    /\ style = "throws" <=>
         \/ callbackArg = "notFunction"
         \/ Falsy(callbackArg) /\ optionsArg.kind # "function" /\ ~promiseDefined
    /\ style = "throws" => C19_ThrewOnly
    /\ style # "throws" => thrown = NoErr \/ parseMode \in {"throwBefore", "syncThenThrow"}

\* A falsy callback that is not undefined, with a Promise primitive: the
\* call is wrapped and its validation error is on its way.
C19_Witness ==
  /\ callbackArg = "falsy"
  /\ optionsArg.kind # "function"
  /\ promiseDefined
  /\ style = "deferred"
  /\ pc = "tick"

====
